---- MODULE Spec2Model ----
(***************************************************************************)
(* A model of the DSP worklet processors and effect wrappers of Tone.js:   *)
(*   - FeedbackCombFilterProcessor / ToneAudioWorkletProcessor             *)
(*     (src/Tone/component/filter/FeedbackCombFilterProcessor.ts)          *)
(*   - BitCrusherProcessor (src/Tone/effect/BitCrusherProcessor.ts)        *)
(*   - Freeverb (src/Tone/effect/Freeverb.ts), Freeverb1                   *)
(*     (src/unnamed/part_000)                                              *)
(*   - Chorus1 (src/Tone/effect/Chorus1.ts)                                *)
(* Sample values and parameters are exact rationals <<n, d>> in lowest     *)
(* terms with d > 0; JavaScript's double rounding is not modelled.         *)
(* Parameters are taken at the values the claims speak of: bits whole,     *)
(* delayTime and feedback constant over a run.                             *)
(***************************************************************************)
EXTENDS Integers, Sequences, FiniteSets, TLC

VARIABLES
    \* ---- FeedbackCombFilterProcessor ----
    disposed,     \* ToneAudioWorkletProcessor.disposed
    buffer,       \* DelayLine: per channel, the circular sample buffer
    writeHead,    \* DelayLine: per channel, the write cursor
    delayTime,    \* parameters.delayTime handed to generate (k-rate)
    feedback,     \* parameters.feedback handed to generate (k-rate)
    pc,           \* "idle" between blocks, "block" inside process()
    done,         \* per channel, samples generated in the current block
    outBlock,     \* per channel, the output block of the latest request
    inHist,       \* per channel, every input sample passed to generate
    outHist,      \* per channel, every sample returned by generate
    blocks,       \* number of blocks requested so far
    received,     \* number of "dispose" messages delivered so far
    lastCall,     \* the latest handler step taken by the processor
    \* ---- BitCrusherProcessor ----
    bcInput,      \* the sample handed to generate
    bcBits,       \* parameters.bits
    bcChannel,    \* the _channel argument
    bcOut,        \* the value generate returned
    bcCalls,      \* generate calls made on this processor
    bcStage,      \* "input", "crushed", "recrushed"
    bcFirst,      \* the first application's result while re-applying
    \* ---- Freeverb / Freeverb1 ----
    combFilters,  \* per effect, the dampening of each LowpassCombFilter
    fvAssigned,   \* per effect, the latest value given to dampening
    fvRead,       \* the latest read of a dampening accessor
    \* ---- Chorus1 ----
    chDepth,      \* Chorus1._depth
    chDelayTime,  \* Chorus1._delayTime (seconds)
    chLfo,        \* Chorus1._lfo: min, max, phase, type
    chChannel,    \* Chorus1._channel
    chLast        \* the latest accessor used on the chorus

combVars == <<disposed, buffer, writeHead, delayTime, feedback, pc, done,
              outBlock, inHist, outHist, blocks, received, lastCall>>
bitVars == <<bcInput, bcBits, bcChannel, bcOut, bcCalls, bcStage, bcFirst>>
fvVars == <<combFilters, fvAssigned, fvRead>>
choVars == <<chDepth, chDelayTime, chLfo, chChannel, chLast>>
vars == <<combVars, bitVars, fvVars, choVars>>
notComb == <<bitVars, fvVars, choVars>>
notBits == <<combVars, fvVars, choVars>>
notFreeverb == <<combVars, bitVars, choVars>>
notChorus == <<combVars, bitVars, fvVars>>

(***************************************************************************)
(* Exact arithmetic on JavaScript numbers: rationals in lowest terms.      *)
(***************************************************************************)
Abs(i) == IF i < 0 THEN -i ELSE i

RECURSIVE GCD(_, _)
GCD(a, b) == IF b = 0 THEN a ELSE GCD(b, a % b)

Rat(n, d) ==
    LET g == GCD(Abs(n), d)
    IN  <<n \div g, d \div g>>

Zero == Rat(0, 1)
One == Rat(1, 1)
Half == Rat(1, 2)

RNeg(a) == <<-a[1], a[2]>>
RAbs(a) == <<Abs(a[1]), a[2]>>
RAdd(a, b) ==
    LET g == GCD(a[2], b[2])
    IN  Rat(a[1] * (b[2] \div g) + b[1] * (a[2] \div g), (a[2] \div g) * b[2])
RSub(a, b) == RAdd(a, RNeg(b))
\* a * b, cancelling across the fraction bars before multiplying
RMul(a, b) ==
    LET g1 == GCD(Abs(a[1]), b[2])
        g2 == GCD(Abs(b[1]), a[2])
    IN  <<(a[1] \div g1) * (b[1] \div g2), (a[2] \div g2) * (b[2] \div g1)>>
\* a / b for b > 0
RDiv(a, b) == RMul(a, <<b[2], b[1]>>)
\* Math.floor
RFloor(a) == a[1] \div a[2]
\* a <= b: by integer parts first, then by the fractional parts
RLeq(a, b) ==
    LET fa == RFloor(a)
        fb == RFloor(b)
    IN  IF fa # fb THEN fa < fb
        ELSE (a[1] - fa * a[2]) * b[2] <= (b[1] - fb * b[2]) * a[2]
RLess(a, b) == ~RLeq(b, a)
\* Math.max
RMax(a, b) == IF RLeq(a, b) THEN b ELSE a
IsInteger(a) == a[2] = 1

RECURSIVE Pow2(_)
Pow2(k) == IF k = 0 THEN 1 ELSE 2 * Pow2(k - 1)

(***************************************************************************)
(* BitCrusherProcessor                                                     *)
(***************************************************************************)
\* parameterDescriptors: bits has minValue 1 and maxValue 16
BitsMin == 1
BitsMax == 16
Bits == BitsMin..BitsMax

\* Bounds of the input samples explored: whole + k / d, with d a power of
\* two up to 2^BcMaxExp (the halfway points of every bit depth) or one of
\* 3, 5, 10 (0.3 and 0.6 among them).
BcMaxWhole == 1
BcMaxNumer == 3
BcMaxExp == 17
BcMaxCalls == 2
BcChannels == {0, 1}
BcDens == {Pow2(j) : j \in 0..BcMaxExp} \cup {3, 5, 10}
BcInputs ==
    {Rat(w * d + k, d) : w \in -BcMaxWhole..BcMaxWhole,
                         k \in -BcMaxNumer..BcMaxNumer, d \in BcDens}

\* const step = Math.pow(0.5, parameters.bits - 1)
BitStep(bits) == Rat(1, Pow2(bits - 1))

\* A faulty variant: the quantized index is returned without rescaling by step.
BitCrusher_generate_NoRescale(input, channel, bits) ==
    LET step == BitStep(bits)
    IN  <<RFloor(RAdd(RDiv(input, step), Half)), 1>>

\* A faulty variant: the exponent counts down from the deepest setting, so the step
\* grows with the bit depth.
BitCrusher_generate_Inverted(input, channel, bits) ==
    LET step == Rat(1, Pow2(BitsMax - bits))
    IN  RMul(step, <<RFloor(RAdd(RDiv(input, step), Half)), 1>>)

\* A faulty variant: the + 0.5 is dropped, so the sample is truncated downwards.
BitCrusher_generate_Truncate(input, channel, bits) ==
    LET step == BitStep(bits)
    IN  RMul(step, <<RFloor(RDiv(input, step)), 1>>)

\* generate(input, _channel, parameters)
BitCrusher_generate(input, channel, bits) ==
    LET step == BitStep(bits)
        val == RMul(step, <<RFloor(RAdd(RDiv(input, step), Half)), 1>>)
    IN  val

NoSample == <<0, 0>>

RestBits ==
    /\ bcInput = Zero
    /\ bcBits = 12
    /\ bcChannel = 0
    /\ bcOut = NoSample
    /\ bcCalls = 0
    /\ bcStage = "input"
    /\ bcFirst = NoSample

\* A processor whose next input sample and bits parameter are given.
InitBits ==
    /\ bcInput \in BcInputs
    /\ bcBits \in Bits
    /\ bcChannel = 0
    /\ bcOut = NoSample
    /\ bcCalls = 0
    /\ bcStage = "input"
    /\ bcFirst = NoSample

\* The sample loop hands the input sample to generate on channel c.
BCProcess(c) ==
    /\ bcCalls < BcMaxCalls
    /\ bcStage \in {"input", "crushed"}
    /\ bcChannel' = c
    /\ bcOut' = BitCrusher_generate(bcInput, c, bcBits)
    /\ bcCalls' = bcCalls + 1
    /\ bcStage' = "crushed"
    /\ UNCHANGED <<bcInput, bcBits, bcFirst>>
    /\ UNCHANGED notBits

\* The reducer's own output is fed through generate again, same bits.
BCReapply(c) ==
    /\ bcStage = "crushed"
    /\ bcFirst' = bcOut
    /\ bcChannel' = c
    /\ bcOut' = BitCrusher_generate(bcOut, c, bcBits)
    /\ bcStage' = "recrushed"
    /\ UNCHANGED <<bcInput, bcBits, bcCalls>>
    /\ UNCHANGED notBits

(***************************************************************************)
(* DelayLine (core/worklet/DelayLine): a circular sample buffer per        *)
(* channel with a write cursor.  A line is [buffer, writeHead].            *)
(***************************************************************************)
\* this.sampleRate (44100 in the source) scaled down to a few samples per
\* second, and this.blockSize (256 in the source) to a few samples per block
SampleRate == 2
BlockSize == 1
\* options.channelCount || 2
ChannelCount == 2
Channels == 0..(ChannelCount - 1)

\* capacity >= ceil(maxDelaySeconds * sampleRate) + 1, maxDelaySeconds = 1
DelayLine_capacity(sampleRate) == sampleRate + 1

DelayLine_new(sampleRate, channels) ==
    [buffer |-> [c \in 0..(channels - 1) |->
                    [i \in 0..(DelayLine_capacity(sampleRate) - 1) |-> Zero]],
     writeHead |-> [c \in 0..(channels - 1) |-> 0]]

LineCapacity(line) == Cardinality(DOMAIN line.buffer[0])

\* write: store at the cursor, then advance the cursor, wrapping at capacity
DelayLine_push(line, channel, value) ==
    [buffer |-> [line.buffer EXCEPT ![channel][line.writeHead[channel]] = value],
     writeHead |-> [line.writeHead EXCEPT
                       ![channel] = (line.writeHead[channel] + 1) % LineCapacity(line)]]

\* the sample written k steps before the most recent write on the channel
DelayLine_at(line, channel, k) ==
    LET cap == LineCapacity(line)
    IN  line.buffer[channel][(line.writeHead[channel] - 1 - k + 2 * cap) % cap]

\* read: a delay at or beyond capacity is clamped to capacity - 1; a fractional
\* delay interpolates linearly between the two nearest integer delays
DelayLine_get(line, channel, delaySamples) ==
    LET cap == LineCapacity(line)
        d == IF RLeq(<<cap, 1>>, delaySamples) THEN <<cap - 1, 1>> ELSE delaySamples
        k == RFloor(d)
        frac == RSub(d, <<k, 1>>)
        k1 == IF k + 1 > cap - 1 THEN cap - 1 ELSE k + 1
    IN  IF frac = Zero THEN DelayLine_at(line, channel, k)
        ELSE RAdd(RMul(RSub(One, frac), DelayLine_at(line, channel, k)),
                  RMul(frac, DelayLine_at(line, channel, k1)))

(***************************************************************************)
(* FeedbackCombFilterProcessor                                             *)
(***************************************************************************)
\* parameterDescriptors: feedback in [0, 0.9999], delayTime in [0, 1]
FeedbackMaxNum == 9999
FeedbackMaxDen == 10000
Feedbacks == {Zero, Half, Rat(FeedbackMaxNum, FeedbackMaxDen)}
\* delay times: whole sample periods from 0 up to the maximum 1 s, and half
\* a sample period
DelayTimes == {Rat(k, SampleRate) : k \in 0..SampleRate} \cup {Rat(1, 2 * SampleRate)}
\* input samples: |input| <= InputBound
InputBound == 1
Inputs == {<<-InputBound, 1>>, Zero, <<InputBound, 1>>}
\* sample frames requested by the host (in whole blocks), "dispose" messages
\* sent, nonzero input samples, and the largest denominator a stored sample
\* may need
MaxSamples == 3
MaxDisposes == 2
MaxPulses == 2
MaxDen == 100000000

\* A faulty variant: the sample is pushed on channel 0 whatever the channel argument.
FeedbackComb_generate_Channel0(line, input, channel, params) ==
    LET delayedSample ==
            DelayLine_get(line, channel, RMul(params.delayTime, <<SampleRate, 1>>))
    IN  [line |-> DelayLine_push(line, 0,
                      RAdd(input, RMul(delayedSample, params.feedback))),
         out |-> delayedSample]

\* A faulty variant: the delayed sample is fed back without the feedback factor.
FeedbackComb_generate_NoFeedback(line, input, channel, params) ==
    LET delayedSample ==
            DelayLine_get(line, channel, RMul(params.delayTime, <<SampleRate, 1>>))
    IN  [line |-> DelayLine_push(line, channel, RAdd(input, delayedSample)),
         out |-> delayedSample]

\* generate(input, channel, parameters): the new delay line and the return value
FeedbackComb_generate(line, input, channel, params) ==
    LET delayedSample ==
            DelayLine_get(line, channel, RMul(params.delayTime, <<SampleRate, 1>>))
    IN  [line |-> DelayLine_push(line, channel,
                      RAdd(input, RMul(delayedSample, params.feedback))),
         out |-> delayedSample]

\* A faulty variant: the handler compares against a misspelt message.
onmessage_Misspelt(isDisposed, data) ==
    IF data = "disposed" THEN TRUE ELSE isDisposed

\* A faulty variant: the handler toggles the flag instead of setting it.
onmessage_Toggle(isDisposed, data) ==
    IF data = "dispose" THEN ~isDisposed ELSE isDisposed

\* this.port.onmessage: the value of this.disposed after the event
onmessage(isDisposed, data) ==
    IF data = "dispose" THEN TRUE ELSE isDisposed

\* the nonzero input samples fed so far, over all channels
RECURSIVE NonZero(_)
NonZero(xs) ==
    IF xs = <<>> THEN 0
    ELSE (IF Head(xs) = Zero THEN 0 ELSE 1) + NonZero(Tail(xs))

RECURSIVE SumOver(_, _)
SumOver(f, S) ==
    IF S = {} THEN 0
    ELSE LET c == CHOOSE c \in S : TRUE
         IN  f[c] + SumOver(f, S \ {c})

Pulses == SumOver([c \in Channels |-> NonZero(inHist[c])], Channels)

\* SingleIOProcessor.process (core/worklet/SingleIOProcessor) runs the sample
\* loop of one block: for every sample of every channel, in increasing sample
\* order per channel, one generate call.  The loop is modelled one generate
\* call at a time, the channels in any order; a message is handled only
\* between two blocks, since the worklet runs process() to completion.
Silence == [c \in Channels |-> [i \in 1..BlockSize |-> Zero]]
Messages == {"dispose", "start"}

InitComb ==
    /\ disposed = FALSE
    /\ buffer = DelayLine_new(SampleRate, ChannelCount).buffer
    /\ writeHead = DelayLine_new(SampleRate, ChannelCount).writeHead
    /\ delayTime \in DelayTimes
    /\ feedback \in Feedbacks
    /\ pc = "idle"
    /\ done = [c \in Channels |-> 0]
    /\ outBlock = [c \in Channels |-> <<>>]
    /\ inHist = [c \in Channels |-> <<>>]
    /\ outHist = [c \in Channels |-> <<>>]
    /\ blocks = 0
    /\ received = 0
    /\ lastCall = [op |-> "new"]

\* The port delivers a message between two blocks.
OnMessage(data) ==
    /\ pc = "idle"
    /\ data = "dispose" => received < MaxDisposes
    /\ disposed' = onmessage(disposed, data)
    /\ received' = IF data = "dispose" THEN received + 1 ELSE received
    /\ lastCall' = [op |-> "message", data |-> data]
    /\ UNCHANGED <<buffer, writeHead, delayTime, feedback, pc, done, outBlock,
                   inHist, outHist, blocks>>
    /\ UNCHANGED notComb

\* The host requests a block from a disposed processor: silence.
ProcessDisposed ==
    /\ pc = "idle"
    /\ blocks * BlockSize < MaxSamples
    /\ disposed
    /\ outBlock' = Silence
    /\ blocks' = blocks + 1
    /\ lastCall' = [op |-> "silence"]
    /\ UNCHANGED <<disposed, buffer, writeHead, delayTime, feedback, pc, done,
                   inHist, outHist, received>>
    /\ UNCHANGED notComb

\* The host requests a block from a live processor: the sample loop starts.
ProcessBegin ==
    /\ pc = "idle"
    /\ blocks * BlockSize < MaxSamples
    /\ ~disposed
    /\ pc' = "block"
    /\ done' = [c \in Channels |-> 0]
    /\ outBlock' = [c \in Channels |-> <<>>]
    /\ blocks' = blocks + 1
    /\ lastCall' = [op |-> "process"]
    /\ UNCHANGED <<disposed, buffer, writeHead, delayTime, feedback,
                   inHist, outHist, received>>
    /\ UNCHANGED notComb

\* One pass of the sample loop: generate for the next sample of channel c.
\* (A call whose stored sample would need a denominator above MaxDen is
\* beyond the arithmetic explored.)
Generate(c, x) ==
    /\ pc = "block"
    /\ done[c] < BlockSize
    /\ x # Zero => Pulses < MaxPulses
    /\ DelayLine_get([buffer |-> buffer, writeHead |-> writeHead], c,
                     RMul(delayTime, <<SampleRate, 1>>))[2] <= MaxDen \div feedback[2]
    /\ LET line == [buffer |-> buffer, writeHead |-> writeHead]
           params == [delayTime |-> delayTime, feedback |-> feedback]
           r == FeedbackComb_generate(line, x, c, params)
       IN  /\ buffer' = r.line.buffer
           /\ writeHead' = r.line.writeHead
           /\ outBlock' = [outBlock EXCEPT ![c] = Append(@, r.out)]
           /\ inHist' = [inHist EXCEPT ![c] = Append(@, x)]
           /\ outHist' = [outHist EXCEPT ![c] = Append(@, r.out)]
           /\ lastCall' = [op |-> "generate", channel |-> c, input |-> x,
                           out |-> r.out]
    /\ done' = [done EXCEPT ![c] = @ + 1]
    /\ pc' = IF \A k \in Channels : done'[k] = BlockSize THEN "idle" ELSE "block"
    /\ UNCHANGED <<disposed, delayTime, feedback, blocks, received>>
    /\ UNCHANGED notComb

(***************************************************************************)
(* LowpassCombFilter (component/filter/LowpassCombFilter): the reverb      *)
(* primitive; only its dampening (cutoff) control and delay time are kept. *)
(***************************************************************************)
LowpassCombFilter_new(options) ==
    [dampening |-> options.dampening, delayTime |-> options.delayTime]

LowpassCombFilter_setDampening(comb, d) == [comb EXCEPT !.dampening = d]

LowpassCombFilter_getDampening(comb) == comb.dampening

(***************************************************************************)
(* Freeverb and Freeverb1                                                  *)
(***************************************************************************)
\* combFilterTunings, as sample counts at 44100 Hz
combFilterTunings == <<1557, 1617, 1491, 1422, 1277, 1356, 1188, 1116>>

\* getDefaults().dampening
DefaultDampening == 3000
\* the cutoff frequencies given as option or assigned
Dampenings == {500, 1000, DefaultDampening, 5000, 8000}

\* Freeverb constructor: this._combFilters = combFilterTunings.map(...)
Freeverb_new(options) ==
    [index \in 1..Len(combFilterTunings) |->
        LowpassCombFilter_new([dampening |-> options.dampening,
                               delayTime |-> Rat(combFilterTunings[index], 44100)])]

\* A faulty variant: only the first comb filter receives the new dampening.
Freeverb_setDampening_FirstOnly(combs, d) ==
    [combs EXCEPT ![1] = LowpassCombFilter_setDampening(@, d)]

\* set dampening(d): this._combFilters.forEach(c => c.dampening = d)
Freeverb_setDampening(combs, d) ==
    [index \in DOMAIN combs |-> LowpassCombFilter_setDampening(combs[index], d)]

\* get dampening(): this._combFilters[0].dampening
Freeverb_getDampening(combs) == LowpassCombFilter_getDampening(combs[1])

\* Freeverb1 constructor: this._combFilters = combFilterTunings.map(...)
Freeverb1_new(options) ==
    [index \in 1..Len(combFilterTunings) |->
        LowpassCombFilter_new([dampening |-> options.dampening,
                               delayTime |-> Rat(combFilterTunings[index], 44100)])]

\* set dampening(d): this._combFilters.forEach(c => c.dampening = d)
Freeverb1_setDampening(combs, d) ==
    [index \in DOMAIN combs |-> LowpassCombFilter_setDampening(combs[index], d)]

\* get dampening(): this._combFilters[0].dampening
Freeverb1_getDampening(combs) == LowpassCombFilter_getDampening(combs[1])

Effects == {"Freeverb", "Freeverb1"}

NewEffect(e, d) ==
    IF e = "Freeverb" THEN Freeverb_new([dampening |-> d])
    ELSE Freeverb1_new([dampening |-> d])

InitFreeverb ==
    /\ \E opt \in [Effects -> Dampenings] :
          /\ combFilters = [e \in Effects |-> NewEffect(e, opt[e])]
          /\ fvAssigned = [e \in Effects |-> [value |-> opt[e], assigned |-> FALSE]]
    /\ fvRead = [effect |-> "none"]

\* effect.dampening = d
SetDampening(e, d) ==
    /\ combFilters' = [combFilters EXCEPT ![e] =
          IF e = "Freeverb" THEN Freeverb_setDampening(@, d)
          ELSE Freeverb1_setDampening(@, d)]
    /\ fvAssigned' = [fvAssigned EXCEPT ![e] = [value |-> d, assigned |-> TRUE]]
    /\ UNCHANGED fvRead
    /\ UNCHANGED notFreeverb

\* a read of effect.dampening
GetDampening(e) ==
    /\ fvRead' = [effect |-> e,
                  value |-> IF e = "Freeverb" THEN Freeverb_getDampening(combFilters[e])
                            ELSE Freeverb1_getDampening(combFilters[e]),
                  expected |-> fvAssigned[e]]
    /\ UNCHANGED <<combFilters, fvAssigned>>
    /\ UNCHANGED notFreeverb

(***************************************************************************)
(* Chorus1.  A chorus is [depth, delayTime, lfo, channel].                 *)
(***************************************************************************)
\* depth in [0, 1] (default 0.7), delayTime in ms >= 0 (default 3.5)
ChorusDepths == {Zero, Half, Rat(7, 10), One}
ChorusDelayTimes == {Zero, Rat(2, 1), Rat(7, 2), Rat(20, 1)}
ChorusSpreads == {Zero, Rat(90, 1), Rat(180, 1)}
ChorusTypes == {"sine", "square"}
Thousand == Rat(1000, 1)

\* set depth(depth)
Chorus1_setDepth(ch, depth) ==
    LET deviation == RMul(ch.delayTime, depth)
    IN  [ch EXCEPT !.depth = depth,
                   !.lfo.min = RMax(RSub(ch.delayTime, deviation), Zero),
                   !.lfo.max = RAdd(ch.delayTime, deviation)]

\* A faulty variant: the LFO range is not refreshed when the delay time changes.
Chorus1_setDelayTime_NoRefresh(ch, ms) ==
    [ch EXCEPT !.delayTime = RDiv(ms, Thousand)]

\* set delayTime(delayTime): the argument is in milliseconds
Chorus1_setDelayTime(ch, ms) ==
    LET c1 == [ch EXCEPT !.delayTime = RDiv(ms, Thousand)]
    IN  Chorus1_setDepth(c1, c1.depth)

\* get delayTime(): milliseconds
Chorus1_getDelayTime(ch) == RMul(ch.delayTime, Thousand)

\* set type(type)
Chorus1_setType(ch, type) == [ch EXCEPT !.lfo.type = type]

\* set spread(spread)
Chorus1_setSpread(ch, spread) ==
    [ch EXCEPT !.lfo.phase =
        IF ch.channel = 0 THEN RSub(Rat(90, 1), RMul(spread, Half))
        ELSE RAdd(RMul(spread, Half), Rat(90, 1))]

\* constructor
Chorus1_new(options) ==
    LET c0 == [channel |-> options.channel,
               depth |-> options.depth,
               delayTime |-> RDiv(options.delayTime, Thousand),
               lfo |-> [min |-> Zero, max |-> One,
                        phase |-> Rat(180 * options.channel, 1), type |-> "sine"]]
    IN  Chorus1_setSpread(
            Chorus1_setType(Chorus1_setDepth(c0, c0.depth), options.type),
            options.spread)

\* getDefaults()
Chorus1_getDefaults ==
    [delayTime |-> Rat(7, 2), depth |-> Rat(7, 10), type |-> "sine",
     spread |-> Rat(180, 1), channel |-> 0]

Chorus == [channel |-> chChannel, depth |-> chDepth, delayTime |-> chDelayTime,
           lfo |-> chLfo]

ChorusIs(ch) ==
    /\ chChannel = ch.channel
    /\ chDepth = ch.depth
    /\ chDelayTime = ch.delayTime
    /\ chLfo = ch.lfo

ChorusBecomes(ch) ==
    /\ chChannel' = ch.channel
    /\ chDepth' = ch.depth
    /\ chDelayTime' = ch.delayTime
    /\ chLfo' = ch.lfo

InitChorus ==
    /\ \E dep \in ChorusDepths, ms \in ChorusDelayTimes, c \in {0, 1} :
          ChorusIs(Chorus1_new([Chorus1_getDefaults EXCEPT
                       !.depth = dep, !.delayTime = ms, !.channel = c]))
    /\ chLast = [op |-> "new"]

\* chorus.depth = dep
SetDepth(dep) ==
    /\ ChorusBecomes(Chorus1_setDepth(Chorus, dep))
    /\ chLast' = [op |-> "depth", before |-> chDelayTime]
    /\ UNCHANGED notChorus

\* chorus.delayTime = ms
SetDelayTime(ms) ==
    /\ ChorusBecomes(Chorus1_setDelayTime(Chorus, ms))
    /\ chLast' = [op |-> "delayTime", before |-> chDepth]
    /\ UNCHANGED notChorus

\* a read of chorus.delayTime
GetDelayTime ==
    /\ chLast' = [op |-> "getDelayTime", value |-> Chorus1_getDelayTime(Chorus)]
    /\ UNCHANGED <<chDepth, chDelayTime, chLfo, chChannel>>
    /\ UNCHANGED notChorus

\* chorus.type = type
SetType(type) ==
    /\ ChorusBecomes(Chorus1_setType(Chorus, type))
    /\ chLast' = [op |-> "type"]
    /\ UNCHANGED notChorus

\* chorus.spread = spread
SetSpread(spread) ==
    /\ ChorusBecomes(Chorus1_setSpread(Chorus, spread))
    /\ chLast' = [op |-> "spread"]
    /\ UNCHANGED notChorus

(***************************************************************************)
(* Specifications: one per component, the other components at rest.        *)
(***************************************************************************)
RestComb ==
    /\ disposed = FALSE
    /\ buffer = DelayLine_new(SampleRate, ChannelCount).buffer
    /\ writeHead = DelayLine_new(SampleRate, ChannelCount).writeHead
    /\ delayTime = Rat(1, 10)
    /\ feedback = Half
    /\ pc = "idle"
    /\ done = [c \in Channels |-> 0]
    /\ outBlock = [c \in Channels |-> <<>>]
    /\ inHist = [c \in Channels |-> <<>>]
    /\ outHist = [c \in Channels |-> <<>>]
    /\ blocks = 0
    /\ received = 0
    /\ lastCall = [op |-> "new"]

RestFreeverb ==
    /\ combFilters = [e \in Effects |-> NewEffect(e, DefaultDampening)]
    /\ fvAssigned = [e \in Effects |-> [value |-> DefaultDampening, assigned |-> FALSE]]
    /\ fvRead = [effect |-> "none"]

RestChorus ==
    /\ ChorusIs(Chorus1_new(Chorus1_getDefaults))
    /\ chLast = [op |-> "new"]

NextComb ==
    \/ \E data \in Messages : OnMessage(data)
    \/ ProcessDisposed
    \/ ProcessBegin
    \/ \E c \in Channels, x \in Inputs : Generate(c, x)

StartComb == InitComb /\ RestBits /\ RestFreeverb /\ RestChorus

SpecComb == StartComb /\ [][NextComb]_vars

NextBits ==
    \/ \E c \in BcChannels : BCProcess(c)
    \/ \E c \in BcChannels : BCReapply(c)

StartBits == RestComb /\ InitBits /\ RestFreeverb /\ RestChorus

SpecBits == StartBits /\ [][NextBits]_vars

NextFreeverb ==
    \/ \E e \in Effects, d \in Dampenings : SetDampening(e, d)
    \/ \E e \in Effects : GetDampening(e)

StartFreeverb == RestComb /\ RestBits /\ InitFreeverb /\ RestChorus

SpecFreeverb == StartFreeverb /\ [][NextFreeverb]_vars

NextChorus ==
    \/ \E dep \in ChorusDepths : SetDepth(dep)
    \/ \E ms \in ChorusDelayTimes : SetDelayTime(ms)
    \/ GetDelayTime
    \/ \E type \in ChorusTypes : SetType(type)
    \/ \E spread \in ChorusSpreads : SetSpread(spread)

StartChorus == RestComb /\ RestBits /\ RestFreeverb /\ InitChorus

SpecChorus == StartChorus /\ [][NextChorus]_vars

(***************************************************************************)
(* Properties of the feedback comb filter processor                        *)
(***************************************************************************)
\* the delay in samples handed to the delay line: delayTime * sampleRate
DelaySamples == RMul(delayTime, <<SampleRate, 1>>)

IsImpulse(xs) ==
    /\ Len(xs) >= 1
    /\ xs[1] = One
    /\ \A i \in 2..Len(xs) : xs[i] = Zero

\* the echo expected at 0-based index n when the echoes are period samples apart
Echo(n, period) ==
    IF n = period THEN One
    ELSE IF n = 2 * period THEN Rat(1, 2)
    ELSE IF n = 3 * period THEN Rat(1, 4)
    ELSE Zero

ImpulseCase ==
    /\ IsInteger(DelaySamples)
    /\ DelaySamples[1] >= 1
    /\ feedback = Half
    /\ IsImpulse(inHist[0])

\* C1: from an all-zero delay line, with a delay of D = delayTime * sampleRate
\* samples and feedback 0.5, a unit impulse on channel 0 comes out as 1 at
\* index D, 0.5 at index 2D, 0.25 at index 3D and 0 at every other index up
\* to 3D.
CombImpulseResponse ==
    ImpulseCase =>
        \A n \in 0..(Len(outHist[0]) - 1) :
            n <= 3 * DelaySamples[1] => outHist[0][n + 1] = Echo(n, DelaySamples[1])

\* What the processor does instead: the sample read at delay D is the one
\* written D + 1 generate calls earlier, so the echoes are D + 1 samples apart.
CombImpulseObserved ==
    ImpulseCase =>
        \A n \in 0..(Len(outHist[0]) - 1) :
            n <= 3 * (DelaySamples[1] + 1) =>
                outHist[0][n + 1] = Echo(n, DelaySamples[1] + 1)

CombImpulseEchoSeen ==
    /\ ImpulseCase
    /\ Len(outHist[0]) = DelaySamples[1] + 2
    /\ outHist[0][DelaySamples[1] + 2] = One

\* B / (1 - f)
StabilityBound == RDiv(<<InputBound, 1>>, RSub(One, feedback))

\* C2: with feedback f in [0, 0.9999] and inputs of magnitude at most B, every
\* sample stored in the delay line and every sample returned by generate has
\* magnitude at most B / (1 - f).
CombBounded ==
    \A c \in Channels :
        /\ \A i \in DOMAIN buffer[c] : RLeq(RAbs(buffer[c][i]), StabilityBound)
        /\ \A j \in 1..Len(outHist[c]) : RLeq(RAbs(outHist[c][j]), StabilityBound)

\* the recirculated energy has pushed an output above the input bound
CombRecirculated ==
    \E c \in Channels : \E j \in 1..Len(outHist[c]) :
        /\ RLess(<<InputBound, 1>>, RAbs(outHist[c][j]))
        /\ feedback # Zero

DisposeOneWay ==
    /\ disposed = FALSE
    /\ [](disposed <=> received > 0)
    /\ [][disposed => disposed']_vars
    /\ [][(received' # received /\ disposed) =>
            UNCHANGED <<disposed, buffer, writeHead, delayTime, feedback, pc,
                        done, outBlock>>]_vars

\* a second "dispose" and then another message were delivered
DisposedTwiceThenMessage ==
    /\ disposed
    /\ received >= 2
    /\ lastCall = [op |-> "message", data |-> "start"]

\* the run of a processor of one channel that is fed the samples xs alone
RECURSIVE SoloRun(_)
SoloRun(xs) ==
    IF xs = <<>> THEN [line |-> DelayLine_new(SampleRate, 1), out |-> <<>>]
    ELSE LET prev == SoloRun(SubSeq(xs, 1, Len(xs) - 1))
             r == FeedbackComb_generate(prev.line, xs[Len(xs)], 0,
                      [delayTime |-> delayTime, feedback |-> feedback])
         IN  [line |-> r.line, out |-> Append(prev.out, r.out)]

\* a generate call on channel c: one read, then one write at c's cursor,
\* which advances by one; every other channel is left alone
GenerateFrame(c) ==
    LET cap == DelayLine_capacity(SampleRate)
        before == [buffer |-> buffer, writeHead |-> writeHead]
    IN  /\ lastCall'.out = DelayLine_get(before, c, DelaySamples)
        /\ writeHead'[c] = (writeHead[c] + 1) % cap
        /\ buffer'[c][writeHead[c]] =
               RAdd(lastCall'.input, RMul(lastCall'.out, feedback))
        /\ \A i \in DOMAIN buffer[c] : i # writeHead[c] => buffer'[c][i] = buffer[c][i]
        /\ \A k \in Channels \ {c} :
               buffer'[k] = buffer[k] /\ writeHead'[k] = writeHead[k]

\* C10: a generate call for channel c reads then writes channel c's delay line
\* once and leaves the other channels' buffers and cursors unchanged; under
\* any interleaving, channel c's outputs are those of channel c processed alone.
CombChannelsIndependent ==
    /\ [](\A c \in Channels :
             LET solo == SoloRun(inHist[c])
             IN  /\ outHist[c] = solo.out
                 /\ buffer[c] = solo.line.buffer[0]
                 /\ writeHead[c] = solo.line.writeHead[0])
    /\ [][\A c \in Channels :
             (lastCall'.op = "generate" /\ lastCall'.channel = c
                 /\ inHist'[c] # inHist[c]) => GenerateFrame(c)]_vars

\* both channels carry different sound, their generate calls interleaved
CombChannelsInterleaved ==
    /\ Len(inHist[0]) >= 2
    /\ Len(inHist[1]) >= 2
    /\ inHist[0] # inHist[1]
    /\ \E j \in 1..Len(outHist[0]) : outHist[0][j] # Zero
    /\ \E j \in 1..Len(outHist[1]) : outHist[1][j] # Zero
    /\ outHist[0] # outHist[1]

(***************************************************************************)
(* Properties of the bit crusher                                           *)
(***************************************************************************)
\* C5: applying generate to its own output with the same bits returns that
\* output unchanged.
BitIdempotent == bcStage = "recrushed" => bcOut = bcFirst

\* a re-applied sample that the first application had really quantized
BitRequantized ==
    /\ bcStage = "recrushed"
    /\ bcFirst # bcInput
    /\ bcFirst # Zero
    /\ bcBits > 1

\* |generate(x, bits) - x|
BitError(x, c, bits) == RAbs(RSub(BitCrusher_generate(x, c, bits), x))

\* C6: for a fixed input, a larger bit depth never gives a larger quantization
\* error |generate(x, bits) - x|.
BitMonotone ==
    bcStage = "crushed" =>
        \A b \in Bits :
            b > bcBits =>
                RLeq(BitError(bcInput, bcChannel, b), RAbs(RSub(bcOut, bcInput)))

\* a sample whose error a deeper quantization strictly narrows
BitErrorNarrowed ==
    /\ bcStage = "crushed"
    /\ \E b \in Bits :
          /\ b > bcBits
          /\ RLess(BitError(bcInput, bcChannel, b), RAbs(RSub(bcOut, bcInput)))
          /\ BitError(bcInput, bcChannel, b) # Zero

\* C7: generate returns the multiple of step = 2^-(bits-1) nearest to the
\* input, the upper one when the input is halfway between two multiples (with
\* bits = 1: 0.3 gives 0 and 0.6 gives 1), whatever the channel and whatever
\* calls came before.
BitRoundsHalfUp ==
    /\ [](bcStage = "crushed" =>
            LET step == <<1, Pow2(bcBits - 1)>>
                err == RAbs(RSub(bcOut, bcInput))
            IN  /\ IsInteger(RDiv(bcOut, step))
                /\ RLeq(err, RMul(step, Half))
                /\ err = RMul(step, Half) => RLess(bcInput, bcOut)
                /\ (bcBits = 1 /\ bcInput = Rat(3, 10)) => bcOut = Zero
                /\ (bcBits = 1 /\ bcInput = Rat(6, 10)) => bcOut = One)
    /\ [][(bcStage = "crushed" /\ bcStage' = "crushed") => bcOut' = bcOut]_vars

\* a negative sample halfway between two levels, in a second call, channel 1
BitHalfwayNegative ==
    /\ bcStage = "crushed"
    /\ bcCalls = 2
    /\ bcChannel = 1
    /\ bcInput[1] < 0
    /\ RAbs(RSub(bcOut, bcInput)) = RMul(<<1, Pow2(bcBits - 1)>>, Half)
    /\ RLess(bcInput, bcOut)

(***************************************************************************)
(* Properties of Freeverb and Freeverb1                                    *)
(***************************************************************************)
\* C8: after construction and after any assignments to dampening, all comb
\* filters of an effect hold the same dampening, the most recently assigned
\* value (the construction option when none was assigned), and reading
\* dampening returns it.
FreeverbSharedDampening ==
    /\ \A e \in Effects : \A i \in DOMAIN combFilters[e] :
          LowpassCombFilter_getDampening(combFilters[e][i]) = fvAssigned[e].value
    /\ \A e \in Effects : Len(combFilters[e]) = 8
    /\ fvRead.effect # "none" => fvRead.value = fvRead.expected.value

\* both effects were assigned a dampening, and Freeverb1's was read back
FreeverbReadAfterAssign ==
    /\ fvRead.effect = "Freeverb1"
    /\ fvRead.expected.assigned
    /\ fvRead.value # DefaultDampening
    /\ fvAssigned["Freeverb"].assigned
    /\ fvAssigned["Freeverb"].value # fvAssigned["Freeverb1"].value

(***************************************************************************)
(* Properties of Chorus1                                                   *)
(***************************************************************************)
\* C9: after construction and after any assignments to depth and delayTime,
\* lfo.min = max(dt - dt * depth, 0) and lfo.max = dt + dt * depth for the
\* current delay time dt (seconds) and depth, so 0 <= lfo.min <= dt <= lfo.max,
\* and depth 1 gives the range [0, 2 dt]; assigning delayTime leaves depth
\* unchanged and assigning depth leaves delayTime unchanged.
ChorusLfoRange ==
    LET dt == chDelayTime
        dev == RMul(dt, chDepth)
    IN  /\ chLfo.min = RMax(RSub(dt, dev), Zero)
        /\ chLfo.max = RAdd(dt, dev)
        /\ RLeq(Zero, chLfo.min) /\ RLeq(chLfo.min, dt) /\ RLeq(dt, chLfo.max)
        /\ chDepth = One => (chLfo.min = Zero /\ chLfo.max = RMul(<<2, 1>>, dt))
        /\ chLast.op = "delayTime" => chDepth = chLast.before
        /\ chLast.op = "depth" => chDelayTime = chLast.before

\* the delay time was assigned on a chorus of depth 1
ChorusRetimedAtFullDepth ==
    /\ chLast.op = "delayTime"
    /\ chDepth = One
    /\ chDelayTime = Rat(20, 1000)
    /\ chLfo.min = Zero
    /\ chLfo.max = Rat(40, 1000)

====
